---- MODULE Spec2Model ----
(***************************************************************************)
(* Model of the call-initiation tool make_vapi_call of src/server.py.      *)
(*                                                                         *)
(* Python values are records whose field set tells their type:             *)
(*   None            [none |-> TRUE]                                       *)
(*   str             [txt |-> "..."]  (opaque text)                        *)
(*                   [chars |-> <<[c |-> "a", u |-> FALSE], ...>>]          *)
(*                                    (text whose letter case matters)     *)
(*   int / float     [num |-> n]                                           *)
(*   bool            [bool |-> b]                                          *)
(*   list            [items |-> <<...>>]                                   *)
(*   dict            [fields |-> [key |-> value]]                          *)
(*   f-string        [fmt |-> "...{}...", args |-> <<...>>]                *)
(* A returned outcome is a TLA+ record whose fields are the keys of the    *)
(* returned dict.                                                          *)
(***************************************************************************)
EXTENDS Integers, Sequences, FiniteSets, TLC

VARIABLES
  env,        \* os.environ: the four configuration variables
  args,       \* args[i]: the arguments of invocation i
  pc,         \* pc[i]: where invocation i is in make_vapi_call
  locals,     \* locals[i]: the local variables of invocation i
  exchanges,  \* exchanges[i]: the HTTP requests invocation i has sent, each with its answer
  result      \* result[i]: the dict invocation i returned

vars == <<env, args, pc, locals, exchanges, result>>

(***************************************************************************)
(* Bounds of the model                                                     *)
(***************************************************************************)
\* Number of invocations of make_vapi_call that may be in flight together
NumInvocations == 2

Invocations == 1..NumInvocations

(***************************************************************************)
(* Python values                                                           *)
(***************************************************************************)
None == [none |-> TRUE]

Txt(s) == [txt |-> s]

Num(n) == [num |-> n]

List(seq) == [items |-> seq]

Dict(f) == [fields |-> f]

EmptyDict == [fields |-> <<>>]

FStr(f, a) == [fmt |-> f, args |-> a]

\* A local variable that has not been assigned yet
Unset == [unset |-> TRUE]

\* bool(v): Python truthiness, as used by `not x`, `if x:` and `a if x else b`
Truthy(v) ==
  CASE "none" \in DOMAIN v -> FALSE
    [] "txt" \in DOMAIN v -> v.txt # ""
    [] "chars" \in DOMAIN v -> Len(v.chars) > 0
    [] "num" \in DOMAIN v -> v.num # 0
    [] "bool" \in DOMAIN v -> v.bool
    [] "items" \in DOMAIN v -> Len(v.items) > 0
    [] "fields" \in DOMAIN v -> DOMAIN v.fields # {}
    [] OTHER -> TRUE

\* Only a dict has a .get method; on anything else .get raises AttributeError
IsDict(v) == "fields" \in DOMAIN v

\* mapping.get(key, default)
DictGet(d, k, default) == IF k \in DOMAIN d.fields THEN d.fields[k] ELSE default

(***************************************************************************)
(* str.lower, str.upper, str.title on text whose case matters              *)
(***************************************************************************)
Letters == {"a", "b", "d", "h", "i", "k", "m", "n", "o", "p", "v", "e", "y"}

IsLetter(ch) == ch.c \in Letters

\* The text spelled by the characters cs, upper-case at the positions in up
Str(cs, up) == [chars |-> [i \in DOMAIN cs |-> [c |-> cs[i], u |-> i \in up]]]

Lower(s) == [chars |-> [i \in DOMAIN s.chars |-> [c |-> s.chars[i].c, u |-> FALSE]]]

Upper(s) ==
  [chars |-> [i \in DOMAIN s.chars |->
     [c |-> s.chars[i].c, u |-> IsLetter(s.chars[i])]]]

\* str.title: the first letter of every run of letters upper, the rest lower
Title(s) ==
  [chars |-> [i \in DOMAIN s.chars |->
     [c |-> s.chars[i].c,
      u |-> /\ IsLetter(s.chars[i])
            /\ (i = 1 \/ ~IsLetter(s.chars[i - 1]))]]]

andy == Str(<<"a", "n", "d", "y">>, {})

mam == Str(<<"m", "a", "m">>, {})

\* The names of the environment variables
VAPI_API_KEY ==
  Upper(Str(<<"v", "a", "p", "i", "_", "a", "p", "i", "_", "k", "e", "y">>, {}))

ANDY == Upper(andy)

MAM == Upper(mam)

PHONE == Upper(Str(<<"p", "h", "o", "n", "e">>, {}))

EnvNames == {VAPI_API_KEY, ANDY, MAM, PHONE}

\* os.environ.get(name): the value, or None when the variable is not set
EnvironGet(e, name) == e[name]

(***************************************************************************)
(* Exceptions and HTTP responses                                           *)
(***************************************************************************)
\* The subclasses of httpx.TimeoutException
TimeoutClasses == {"ConnectTimeout", "ReadTimeout"}

\* The subclasses of httpx.RequestError (httpx.TimeoutException is one)
RequestErrorClasses == TimeoutClasses \cup {"ConnectError"}

\* An exception of class cls whose str() is text
Exc(cls, text) == [exc |-> cls, text |-> text]

IsException(a) == "exc" \in DOMAIN a

\* The body of a response that is not JSON: response.json() raises on it
NotJson == [invalid |-> TRUE]

\* An HTTP response: response.status_code, response.text, and what
\* response.json() parses the text to
Response(code, text, body) == [status_code |-> code, text |-> text, body |-> body]

JSONDecodeError == Exc("JSONDecodeError", "Expecting value: line 1 column 1 (char 0)")

AttributeError == Exc("AttributeError", "object has no attribute 'get'")

(***************************************************************************)
(* The outcomes make_vapi_call returns                                     *)
(***************************************************************************)
\* Variant of IsValidAssistant: any non-empty assistant is accepted
IsValidAssistantNonEmpty(assistant) == Truthy(assistant)

\* assistant.lower() not in ["andy", "mam"] is false
IsValidAssistant(assistant) == Lower(assistant) \in {andy, mam}

ValidationError(a) ==
  [success |-> FALSE,
   error |-> FStr("Invalid assistant '{}'. Must be 'andy' or 'mam'", <<a.assistant>>),
   error_type |-> "validation_error",
   message |-> Txt("Assistant parameter must be either 'andy' or 'mam'"),
   valid_options |-> <<andy, mam>>]

\* andy_id if assistant.lower() == "andy" else mam_id
SelectAssistantId(assistant, andy_id, mam_id) ==
  IF Lower(assistant) = andy THEN andy_id ELSE mam_id

\* Variant of MissingVars: only the first missing variable is listed
MissingVarsFirstOnly(assistant, api_key, assistant_id, phone_id) ==
  IF ~Truthy(api_key) THEN <<VAPI_API_KEY>>
  ELSE IF ~Truthy(assistant_id) THEN <<Upper(assistant)>>
  ELSE IF ~Truthy(phone_id) THEN <<PHONE>>
  ELSE <<>>

\* The list missing_vars after the three appends
MissingVars(assistant, api_key, assistant_id, phone_id) ==
  (IF ~Truthy(api_key) THEN <<VAPI_API_KEY>> ELSE <<>>)
    \o (IF ~Truthy(assistant_id) THEN <<Upper(assistant)>> ELSE <<>>)
    \o (IF ~Truthy(phone_id) THEN <<PHONE>> ELSE <<>>)

\* ', '.join(names)
RECURSIVE Join(_)
Join(names) ==
  IF Len(names) = 0 THEN <<>>
  ELSE IF Len(names) = 1 THEN <<names[1]>>
  ELSE <<names[1], Txt(", ")>> \o Join(Tail(names))

\* Variant of ConfigurationError: the persona is restated upper-cased
ConfigurationErrorUpper(a, missing_vars) ==
  [success |-> FALSE,
   error |-> FStr("Missing required environment variables: {}", Join(missing_vars)),
   error_type |-> "configuration_error",
   message |-> Txt("Please configure all required environment variables"),
   missing_variables |-> missing_vars,
   assistant_requested |-> Upper(a.assistant)]

ConfigurationError(a, missing_vars) ==
  [success |-> FALSE,
   error |-> FStr("Missing required environment variables: {}", Join(missing_vars)),
   error_type |-> "configuration_error",
   message |-> Txt("Please configure all required environment variables"),
   missing_variables |-> missing_vars,
   assistant_requested |-> a.assistant]

\* The JSON body of the POST
Payload(a, assistant_id, phone_id) ==
  [assistantId |-> assistant_id,
   phoneNumberId |-> phone_id,
   customer |-> IF Truthy(a.customer_name)
                THEN [number |-> a.destination_phone_number, name |-> a.customer_name]
                ELSE [number |-> a.destination_phone_number]]

\* The headers of the POST
PostHeaders(api_key) ==
  [Authorization |-> FStr("Bearer {}", <<api_key>>),
   ContentType |-> Txt("application/json")]

\* The headers of the GET
GetHeaders(api_key) == [Authorization |-> FStr("Bearer {}", <<api_key>>)]

\* Seconds the POST may take
PostTimeout == 60

\* Seconds the GET may take
GetTimeout == 30

\* Variant of TimeoutSeconds: the timeout of the GET is reported
TimeoutSecondsOfGet == GetTimeout

\* timeout_seconds of a timeout outcome
TimeoutSeconds == 60

PostRequest(a, l) ==
  [method |-> "POST",
   url |-> Txt("https://api.vapi.ai/call/phone"),
   headers |-> PostHeaders(l.api_key),
   json |-> Payload(a, l.assistant_id, l.phone_id),
   timeout |-> PostTimeout]

GetRequest(l) ==
  [method |-> "GET",
   url |-> FStr("https://api.vapi.ai/call/{}", <<l.call_id>>),
   headers |-> GetHeaders(l.api_key),
   timeout |-> GetTimeout]

\* Variant of SuccessStatus: final_data.get("status"), without the default
SuccessStatusDefaultNone(final_data) == DictGet(final_data, "status", None)

\* final_data.get("status", "unknown")
SuccessStatus(final_data) == DictGet(final_data, "status", Txt("unknown"))

Success(a, l, final_data) ==
  [success |-> TRUE,
   call_id |-> l.call_id,
   status |-> SuccessStatus(final_data),
   message |-> FStr("Call successfully initiated to {} using {} assistant",
                    <<a.destination_phone_number, Title(a.assistant)>>),
   assistant_used |-> a.assistant,
   assistant_id |-> l.assistant_id,
   phone_id |-> l.phone_id,
   customer_number |-> a.destination_phone_number,
   customer_name |-> a.customer_name,
   call_duration |-> DictGet(final_data, "duration", None),
   call_started_at |-> DictGet(final_data, "startedAt", None),
   call_ended_at |-> DictGet(final_data, "endedAt", None),
   transcript |-> DictGet(final_data, "transcript", None),
   cost |-> DictGet(final_data, "cost", None),
   raw_response |-> final_data]

\* error_detail after the try of the non-200 branch
ErrorDetail(response) ==
  IF response.body # NotJson /\ IsDict(response.body)
  THEN DictGet(response.body, "message", Txt(response.text))
  ELSE Txt(response.text)

\* error_code after the try of the non-200 branch
ErrorCode(response) ==
  IF response.body # NotJson /\ IsDict(response.body)
  THEN DictGet(response.body, "code", Txt("unknown"))
  ELSE Txt("parse_error")

\* Variant of ErrorType: without the branch for statuses of 500 and above
ErrorTypeNoServer(status_code) ==
  IF status_code = 401 THEN "authentication_error"
  ELSE IF status_code = 403 THEN "authorization_error"
  ELSE IF status_code = 429 THEN "rate_limit_error"
  ELSE "api_error"

\* error_type of the non-200 branch
ErrorType(status_code) ==
  IF status_code = 401 THEN "authentication_error"
  ELSE IF status_code = 403 THEN "authorization_error"
  ELSE IF status_code = 429 THEN "rate_limit_error"
  ELSE IF status_code >= 500 THEN "server_error"
  ELSE "api_error"

\* suggestion of the non-200 branch
Suggestion(status_code) ==
  IF status_code = 401 THEN "Check your VAPI_API_KEY is correct and active"
  ELSE IF status_code = 403
  THEN "Check your account permissions and assistant/phone access"
  ELSE IF status_code = 429 THEN "Too many requests - wait before retrying"
  ELSE IF status_code >= 500
  THEN "Vapi service is experiencing issues - try again later"
  ELSE "Check your request parameters and try again"

ApiError(a, l, response) ==
  [success |-> FALSE,
   error |-> FStr("Vapi API error (HTTP {}): {}",
                  <<Num(response.status_code), ErrorDetail(response)>>),
   error_type |-> ErrorType(response.status_code),
   error_code |-> ErrorCode(response),
   message |-> FStr("Failed to initiate call to {} using {} assistant",
                    <<a.destination_phone_number, Title(a.assistant)>>),
   status_code |-> response.status_code,
   assistant_requested |-> a.assistant,
   assistant_id |-> l.assistant_id,
   phone_id |-> l.phone_id,
   customer_number |-> a.destination_phone_number,
   suggestion |-> Suggestion(response.status_code)]

\* The handler of httpx.TimeoutException around the two requests
InnerTimeoutError(a, e) ==
  [success |-> FALSE,
   error |-> FStr("Request timeout after 60 seconds: {}", <<Txt(e.text)>>),
   error_type |-> "timeout_error",
   message |-> FStr("Call initiation timed out for {} using {} assistant - Vapi may still be processing",
                    <<a.destination_phone_number, Title(a.assistant)>>),
   timeout_seconds |-> TimeoutSeconds,
   assistant_requested |-> a.assistant,
   customer_number |-> a.destination_phone_number,
   suggestion |-> "Check Vapi dashboard for call status or retry with a longer timeout"]

\* The outer handler of httpx.TimeoutException
OuterTimeoutError(a, e) ==
  [success |-> FALSE,
   error |-> FStr("Request timeout: {}", <<Txt(e.text)>>),
   error_type |-> "timeout_error",
   message |-> FStr("Call initiation timed out for {} using {} assistant - Vapi may still be processing the call",
                    <<a.destination_phone_number, Title(a.assistant)>>),
   timeout_seconds |-> TimeoutSeconds,
   assistant_requested |-> a.assistant,
   customer_number |-> a.destination_phone_number,
   suggestion |-> "Check Vapi dashboard for call status or retry the call"]

NetworkError(a, e) ==
  [success |-> FALSE,
   error |-> FStr("Network error: {}", <<Txt(e.text)>>),
   error_type |-> "network_error",
   message |-> FStr("Failed to connect to Vapi API for {} using {} assistant - check your internet connection",
                    <<a.destination_phone_number, Title(a.assistant)>>),
   assistant_requested |-> a.assistant,
   customer_number |-> a.destination_phone_number,
   suggestion |-> "Retry the call or check Vapi service status and your network connection"]

HttpError(a, e) ==
  [success |-> FALSE,
   error |-> FStr("HTTP error {}: {}", <<Num(e.status_code), Txt(e.text)>>),
   error_type |-> "http_error",
   message |-> FStr("Vapi API returned an error status {} for {} using {} assistant",
                    <<Num(e.status_code), a.destination_phone_number, Title(a.assistant)>>),
   status_code |-> e.status_code,
   assistant_requested |-> a.assistant,
   customer_number |-> a.destination_phone_number,
   suggestion |-> "Check your API key and account status, or contact Vapi support"]

UnexpectedError(a, e) ==
  [success |-> FALSE,
   error |-> FStr("Unexpected error: {}", <<Txt(e.text)>>),
   error_type |-> "unexpected_error",
   message |-> FStr("An unexpected error occurred while making call to {} using {} assistant",
                    <<a.destination_phone_number, Title(a.assistant)>>),
   assistant_requested |-> a.assistant,
   customer_number |-> a.destination_phone_number,
   error_type_class |-> e.exc,
   suggestion |-> "Check server logs for more details or contact support"]

\* Variant of OuterHandler: without the final except Exception, e propagates
OuterHandlerNoCatchAll(a, e) ==
  IF e.exc \in TimeoutClasses THEN OuterTimeoutError(a, e)
  ELSE IF e.exc \in RequestErrorClasses THEN NetworkError(a, e)
  ELSE IF e.exc = "HTTPStatusError" THEN HttpError(a, e)
  ELSE [raised |-> e]

\* The except clauses of the outer try, in their order
OuterHandler(a, e) ==
  IF e.exc \in TimeoutClasses THEN OuterTimeoutError(a, e)
  ELSE IF e.exc \in RequestErrorClasses THEN NetworkError(a, e)
  ELSE IF e.exc = "HTTPStatusError" THEN HttpError(a, e)
  ELSE UnexpectedError(a, e)

\* What make_vapi_call returns when e is raised between the POST and the
\* return of the inner try: the inner except clause, then the outer ones
Handler(a, e) ==
  IF e.exc \in TimeoutClasses THEN InnerTimeoutError(a, e) ELSE OuterHandler(a, e)

(***************************************************************************)
(* The steps of make_vapi_call                                             *)
(***************************************************************************)
NoLocals ==
  [api_key |-> Unset, andy_id |-> Unset, mam_id |-> Unset, phone_id |-> Unset,
   assistant_id |-> Unset, missing_vars |-> Unset, response |-> Unset,
   call_data |-> Unset, call_id |-> Unset, call_details |-> Unset]

\* The local variables after the environment was read and checked
ConfigLocals(a, e) ==
  LET api_key == EnvironGet(e, VAPI_API_KEY)
      andy_id == EnvironGet(e, ANDY)
      mam_id == EnvironGet(e, MAM)
      phone_id == EnvironGet(e, PHONE)
      assistant_id == SelectAssistantId(a.assistant, andy_id, mam_id)
  IN [NoLocals EXCEPT
        !.api_key = api_key, !.andy_id = andy_id, !.mam_id = mam_id,
        !.phone_id = phone_id, !.assistant_id = assistant_id,
        !.missing_vars = List(MissingVars(a.assistant, api_key, assistant_id, phone_id))]

\* The try block from the POST to the sleep, given the answer to the POST:
\* [ret |-> the dict returned] or [next |-> the local variables at the sleep]
PostStep(a, l, ans) ==
  IF IsException(ans) THEN [ret |-> Handler(a, ans)]
  ELSE IF ans.status_code = 200
  THEN IF ans.body = NotJson THEN [ret |-> Handler(a, JSONDecodeError)]
       ELSE IF ~IsDict(ans.body) THEN [ret |-> Handler(a, AttributeError)]
       ELSE [next |-> [l EXCEPT !.response = ans,
                                !.call_data = ans.body,
                                !.call_id = DictGet(ans.body, "id", None),
                                !.call_details = None]]
  ELSE [ret |-> ApiError(a, l, ans)]

\* Variant of HasCallId: the GET is sent whatever the call id
HasCallIdAlways(call_id) == TRUE

\* if call_id:
HasCallId(call_id) == Truthy(call_id)

\* call_details after the try around the GET, given the answer to the GET
CallDetails(ans) ==
  IF IsException(ans) THEN None
  ELSE IF ans.status_code = 200
  THEN IF ans.body = NotJson THEN None ELSE ans.body
  ELSE None

\* call_details if call_details else call_data
FinalData(l) == IF Truthy(l.call_details) THEN l.call_details ELSE l.call_data

\* The return statement of the 200 branch; final_data.get raises
\* AttributeError when final_data is not a dict
ReturnSuccess(a, l) ==
  IF IsDict(FinalData(l)) THEN Success(a, l, FinalData(l))
  ELSE Handler(a, AttributeError)

\* Variant of StoreLocals: the variables are module-level, shared by all invocations
StoreLocalsShared(loc, i, l) == [j \in DOMAIN loc |-> l]

\* The local variables of invocation i become l
StoreLocals(loc, i, l) == [loc EXCEPT ![i] = l]

\* make_vapi_call as a function of its arguments, the environment and the
\* answers to its own requests, in the order it sent them
RunAlone(a, e, answers) ==
  IF ~IsValidAssistant(a.assistant) THEN ValidationError(a)
  ELSE LET l == ConfigLocals(a, e)
       IN IF Len(l.missing_vars.items) > 0
          THEN ConfigurationError(a, l.missing_vars.items)
          ELSE LET step == PostStep(a, l, answers[1])
               IN IF "ret" \in DOMAIN step THEN step.ret
                  ELSE IF HasCallId(step.next.call_id)
                  THEN ReturnSuccess(a, [step.next EXCEPT
                                           !.call_details = CallDetails(answers[2])])
                  ELSE ReturnSuccess(a, step.next)

\* The tool is invoked with the arguments a
Call(i, a) ==
  /\ pc[i] = "idle"
  /\ args' = [args EXCEPT ![i] = a]
  /\ pc' = [pc EXCEPT ![i] = "validate"]
  /\ UNCHANGED <<env, locals, exchanges, result>>

\* The check of the assistant parameter
Validate(i) ==
  /\ pc[i] = "validate"
  /\ IF IsValidAssistant(args[i].assistant)
     THEN /\ pc' = [pc EXCEPT ![i] = "config"]
          /\ UNCHANGED result
     ELSE /\ pc' = [pc EXCEPT ![i] = "done"]
          /\ result' = [result EXCEPT ![i] = ValidationError(args[i])]
  /\ UNCHANGED <<env, args, locals, exchanges>>

\* The environment is read and checked
LoadConfig(i) ==
  /\ pc[i] = "config"
  /\ LET l == ConfigLocals(args[i], env)
     IN /\ locals' = StoreLocals(locals, i, l)
        /\ IF Len(l.missing_vars.items) > 0
           THEN /\ pc' = [pc EXCEPT ![i] = "done"]
                /\ result' = [result EXCEPT
                                ![i] = ConfigurationError(args[i], l.missing_vars.items)]
           ELSE /\ pc' = [pc EXCEPT ![i] = "post"]
                /\ UNCHANGED result
  /\ UNCHANGED <<env, args, exchanges>>

\* The POST is sent and answered by ans
Post(i, ans) ==
  /\ pc[i] = "post"
  /\ exchanges' = [exchanges EXCEPT
       ![i] = Append(@, [request |-> PostRequest(args[i], locals[i]), answer |-> ans])]
  /\ LET step == PostStep(args[i], locals[i], ans)
     IN IF "ret" \in DOMAIN step
        THEN /\ pc' = [pc EXCEPT ![i] = "done"]
             /\ result' = [result EXCEPT ![i] = step.ret]
             /\ UNCHANGED locals
        ELSE /\ pc' = [pc EXCEPT ![i] = "sleep"]
             /\ locals' = StoreLocals(locals, i, step.next)
             /\ UNCHANGED result
  /\ UNCHANGED <<env, args>>

\* After the sleep the GET is sent and answered by ans, and the call returns
FetchDetails(i, ans) ==
  /\ pc[i] = "sleep"
  /\ HasCallId(locals[i].call_id)
  /\ exchanges' = [exchanges EXCEPT
       ![i] = Append(@, [request |-> GetRequest(locals[i]), answer |-> ans])]
  /\ LET l == [locals[i] EXCEPT !.call_details = CallDetails(ans)]
     IN /\ locals' = StoreLocals(locals, i, l)
        /\ result' = [result EXCEPT ![i] = ReturnSuccess(args[i], l)]
  /\ pc' = [pc EXCEPT ![i] = "done"]
  /\ UNCHANGED <<env, args>>

\* After the sleep, without a call id, the call returns
ReturnInitial(i) ==
  /\ pc[i] = "sleep"
  /\ ~HasCallId(locals[i].call_id)
  /\ result' = [result EXCEPT ![i] = ReturnSuccess(args[i], locals[i])]
  /\ pc' = [pc EXCEPT ![i] = "done"]
  /\ UNCHANGED <<env, args, locals, exchanges>>

(***************************************************************************)
(* Inputs: arguments, environments, and answers of the remote API          *)
(***************************************************************************)
\* Values of the assistant argument: spellings of the two personas in
\* several letter cases, and strings that are neither
Assistants ==
  {Str(<<"a", "n", "d", "y">>, up) : up \in {{}, {1}, {1, 2, 3, 4}, {2, 4}}}
    \cup {Str(<<"m", "a", "m">>, up) : up \in {{}, {1}, {1, 2, 3}}}
    \cup {Str(<<>>, {}), Str(<<"b", "o", "b">>, {}), Str(<<"a", "n", "d", "y", "_">>, {}),
          Str(<<"m", "a", "m", "a">>, {1})}

Destinations == {Txt("+15550100"), Txt("not-a-number")}

CustomerNames == {None, Txt(""), Txt("Ann")}

Arguments ==
  [destination_phone_number : Destinations,
   customer_name : CustomerNames,
   assistant : Assistants]

\* The value a configured variable holds
Configured(name) ==
  CASE name = VAPI_API_KEY -> Txt("key-1")
    [] name = ANDY -> Txt("assistant-andy")
    [] name = MAM -> Txt("assistant-mam")
    [] name = PHONE -> Txt("phone-1")

\* Every variable is not set, set to the empty string, or configured
Environments ==
  {e \in [EnvNames -> {None, Txt("")} \cup {Configured(n) : n \in EnvNames}] :
     \A n \in EnvNames : e[n] \in {None, Txt(""), Configured(n)}}

\* Response bodies: text that is not JSON, JSON that is not an object, objects
BodyHtml == [text |-> "<html>Bad Gateway</html>", body |-> NotJson]

BodyList == [text |-> "[1]", body |-> List(<<Num(1)>>)]

BodyNull == [text |-> "null", body |-> None]

BodyEmpty == [text |-> "{}", body |-> EmptyDict]

BodyId == [text |-> "{\"id\": \"abc\"}", body |-> Dict([id |-> Txt("abc")])]

BodyIdNull == [text |-> "{\"id\": null}", body |-> Dict([id |-> None])]

BodyRinging ==
  [text |-> "{\"id\": \"xyz\", \"status\": \"ringing\", \"cost\": 0}",
   body |-> Dict([id |-> Txt("xyz"), status |-> Txt("ringing"), cost |-> Num(0)])]

BodyError ==
  [text |-> "{\"message\": \"Invalid key\", \"code\": \"E_AUTH\"}",
   body |-> Dict([message |-> Txt("Invalid key"), code |-> Txt("E_AUTH")])]

BodyQueued ==
  [text |-> "{\"status\": \"queued\", \"duration\": null}",
   body |-> Dict([status |-> Txt("queued"), duration |-> None])]

BodyEnded ==
  [text |-> "{\"id\": \"abc\", \"status\": \"ended\", \"duration\": 7, ...}",
   body |-> Dict([id |-> Txt("abc"), status |-> Txt("ended"), duration |-> Num(7),
                  startedAt |-> Txt("2024-01-01T00:00:00Z"),
                  endedAt |-> Txt("2024-01-01T00:00:07Z"),
                  transcript |-> Txt("Hello"), cost |-> Num(3)])]

PostBodies ==
  {BodyHtml, BodyList, BodyNull, BodyEmpty, BodyId, BodyIdNull, BodyRinging, BodyError}

GetBodies ==
  {BodyHtml, BodyList, BodyNull, BodyEmpty, BodyId, BodyQueued, BodyEnded, BodyError}

PostStatuses == {200, 201, 400, 401, 403, 404, 429, 499, 500, 503}

GetStatuses == {200, 404, 500}

\* What client.post and client.get can raise
Exceptions ==
  {Exc("ConnectTimeout", "timed out"), Exc("ReadTimeout", "The read operation timed out"),
   Exc("ConnectError", "Connection refused"),
   [exc |-> "HTTPStatusError", text |-> "Server error", status_code |-> 502],
   Exc("RuntimeError", "boom")}

PostAnswers ==
  Exceptions \cup {Response(c, b.text, b.body) : c \in PostStatuses, b \in PostBodies}

GetAnswers ==
  Exceptions \cup {Response(c, b.text, b.body) : c \in GetStatuses, b \in GetBodies}

\* The inputs of the runs with several invocations in flight
ConcArguments ==
  {[destination_phone_number |-> Txt("+15550100"), customer_name |-> None,
    assistant |-> Str(<<"a", "n", "d", "y">>, {1})],
   [destination_phone_number |-> Txt("not-a-number"), customer_name |-> Txt("Ann"),
    assistant |-> mam]}

ConcEnvironments == {e \in Environments : \A n \in EnvNames : e[n] # Txt("")}

ConcPostAnswers ==
  {Response(200, BodyId.text, BodyId.body),
   Response(200, BodyRinging.text, BodyRinging.body),
   Response(200, BodyEmpty.text, BodyEmpty.body),
   Response(401, BodyError.text, BodyError.body)}

ConcGetAnswers ==
  {Response(200, BodyQueued.text, BodyQueued.body), Exc("ReadTimeout", "timed out")}

(***************************************************************************)
(* Specifications                                                          *)
(***************************************************************************)
\* The server has started: no invocation yet
Init ==
  /\ env \in Environments
  /\ args = [i \in Invocations |-> Unset]
  /\ pc = [i \in Invocations |-> "idle"]
  /\ locals = [i \in Invocations |-> NoLocals]
  /\ exchanges = [i \in Invocations |-> <<>>]
  /\ result = [i \in Invocations |-> Unset]

\* The steps invocation i takes once called
Run(i) ==
  \/ Validate(i)
  \/ LoadConfig(i)
  \/ \E ans \in PostAnswers : Post(i, ans)
  \/ \E ans \in GetAnswers : FetchDetails(i, ans)
  \/ ReturnInitial(i)

\* One invocation, over all the inputs
Next ==
  \/ \E a \in Arguments : Call(1, a)
  \/ Run(1)

Spec == Init /\ [][Next]_vars

\* A called invocation keeps executing, and each request is answered or fails
FairSpec == Spec /\ WF_vars(Run(1))

InitConc ==
  /\ env \in ConcEnvironments
  /\ args = [i \in Invocations |-> Unset]
  /\ pc = [i \in Invocations |-> "idle"]
  /\ locals = [i \in Invocations |-> NoLocals]
  /\ exchanges = [i \in Invocations |-> <<>>]
  /\ result = [i \in Invocations |-> Unset]

\* Several invocations, their steps interleaved
NextConc ==
  \E i \in Invocations :
    \/ \E a \in ConcArguments : Call(i, a)
    \/ Validate(i)
    \/ LoadConfig(i)
    \/ \E ans \in ConcPostAnswers : Post(i, ans)
    \/ \E ans \in ConcGetAnswers : FetchDetails(i, ans)
    \/ ReturnInitial(i)

SpecConc == InitConc /\ [][NextConc]_vars

(***************************************************************************)
(* Properties                                                              *)
(***************************************************************************)
Done(i) == pc[i] = "done"

\* The variant an outcome identifies
Variant(r) == IF r.success THEN "success" ELSE r.error_type

\* The answers invocation i received, in order
Answers(i) == [k \in DOMAIN exchanges[i] |-> exchanges[i][k].answer]

\* The methods of the requests invocation i sent, in order
Methods(i) == [k \in DOMAIN exchanges[i] |-> exchanges[i][k].request.method]

Called(i) == pc[i] # "idle"

InvalidPersona(i) == Called(i) /\ Lower(args[i].assistant) \notin {andy, mam}

\* C1: an assistant argument that is neither 'andy' nor 'mam', compared
\* case-insensitively, gives the validation error with the allowed values,
\* under every environment; no request is sent, the environment is not
\* read, and the outcome is never the configuration error.
C1_InvalidPersonaRejected ==
  \A i \in Invocations :
    InvalidPersona(i) =>
      /\ exchanges[i] = <<>>
      /\ locals[i] = NoLocals
      /\ pc[i] \in {"validate", "done"}
      /\ Done(i) =>
           /\ result[i].success = FALSE
           /\ result[i].error_type = "validation_error"
           /\ result[i].valid_options = <<andy, mam>>

C1_Witness ==
  \E i \in Invocations :
    /\ InvalidPersona(i)
    /\ Done(i)
    /\ \A n \in EnvNames : env[n] = None
    /\ result[i].error_type = "validation_error"
    /\ Len(args[i].assistant.chars) > 0

\* The names of the three configuration values invocation i requires
Required(i) ==
  {VAPI_API_KEY, PHONE, IF Lower(args[i].assistant) = andy THEN ANDY ELSE MAM}

\* Those of them that are absent or empty
Missing(i) == {n \in Required(i) : env[n] \in {None, Txt("")}}

SeqToSet(q) == {q[k] : k \in DOMAIN q}

ConfigChecked(i) == Called(i) /\ ~InvalidPersona(i) /\ pc[i] \notin {"validate", "config"}

\* C2: with a valid persona, when some of the three required values are
\* absent or empty the outcome is the configuration error, missing_variables
\* names each missing value exactly once, and no request is sent; when none
\* is missing the outcome is not the configuration error.
C2_ConfigurationErrorListsAll ==
  \A i \in Invocations :
    ConfigChecked(i) =>
      IF Missing(i) # {}
      THEN /\ Done(i)
           /\ result[i].success = FALSE
           /\ result[i].error_type = "configuration_error"
           /\ SeqToSet(result[i].missing_variables) = Missing(i)
           /\ Len(result[i].missing_variables) = Cardinality(Missing(i))
           /\ exchanges[i] = <<>>
      ELSE Done(i) => Variant(result[i]) # "configuration_error"

C2_Witness ==
  \E i \in Invocations :
    /\ ConfigChecked(i)
    /\ Cardinality(Missing(i)) = 3
    /\ args[i].assistant \notin {andy, mam}
    /\ env[ANDY] = Txt("") /\ env[VAPI_API_KEY] = None
    /\ Done(i)
    /\ Len(result[i].missing_variables) = 3

\* The POST of invocation i was answered 200 with an identifier and the GET was sent
DetailsFetched(i) == Done(i) /\ Len(exchanges[i]) = 2

\* A failure of the GET: an exception, a status other than 200, a body that
\* is not JSON, or JSON that is not an object
GetFailed(ans) ==
  \/ IsException(ans)
  \/ ans.status_code # 200
  \/ ans.body = NotJson
  \/ ~IsDict(ans.body)

\* C3: after a POST answered 200 with an identifier, every failure of the
\* GET is absorbed: the outcome is the success built from the initial record.
C3_DetailFailureAbsorbed ==
  \A i \in Invocations :
    (DetailsFetched(i) /\ GetFailed(exchanges[i][2].answer)) =>
      /\ result[i].success = TRUE
      /\ result[i].raw_response = exchanges[i][1].answer.body

\* The error_type values, the API-error categories among them
ApiErrorTypes ==
  {"api_error", "authentication_error", "authorization_error", "rate_limit_error",
   "server_error", "http_error"}

ErrorTypes ==
  {"validation_error", "configuration_error", "timeout_error", "network_error",
   "unexpected_error"} \cup ApiErrorTypes

WellFormed(r) ==
  /\ "success" \in DOMAIN r
  /\ r.success \in BOOLEAN
  /\ IF r.success
     THEN "error_type" \notin DOMAIN r /\ "error" \notin DOMAIN r /\ "call_id" \in DOMAIN r
     ELSE /\ {"error_type", "error", "message"} \subseteq DOMAIN r
          /\ r.error_type \in ErrorTypes
          /\ "call_id" \notin DOMAIN r

\* C4: for every input, environment and behaviour of the remote API, a
\* called invocation ends, and it ends by returning one well-formed outcome
\* that identifies exactly one variant; no exception leaves the call.
C4_AlwaysOneOutcome ==
  /\ [](\A i \in Invocations :
          /\ Done(i) => WellFormed(result[i])
          /\ ~Done(i) => result[i] = Unset)
  /\ \A i \in Invocations : Called(i) ~> Done(i)

C4_Witness ==
  \E i \in Invocations :
    /\ Done(i)
    /\ Len(exchanges[i]) = 1
    /\ ~IsException(exchanges[i][1].answer)
    /\ exchanges[i][1].answer.status_code = 200
    /\ exchanges[i][1].answer.body = NotJson
    /\ result[i].error_type = "unexpected_error"

\* The POST of invocation i was answered with a status other than 200
PostRejected(i) ==
  /\ Done(i)
  /\ Len(exchanges[i]) >= 1
  /\ ~IsException(exchanges[i][1].answer)
  /\ exchanges[i][1].answer.status_code # 200

\* The category the status fixes
Category(code) ==
  CASE code = 401 -> "authentication_error"
    [] code = 403 -> "authorization_error"
    [] code = 429 -> "rate_limit_error"
    [] code >= 500 -> "server_error"
    [] OTHER -> "api_error"

\* C5: a POST answered with a status other than 200 gives, whatever the
\* body, an API error with a non-empty suggestion and the category the
\* status fixes; a body that is not JSON leaves the raw text as the detail
\* and parse_error as the code.
C5_ApiErrorByStatus ==
  \A i \in Invocations :
    PostRejected(i) =>
      LET response == exchanges[i][1].answer
      IN /\ result[i].success = FALSE
         /\ result[i].error_type = Category(response.status_code)
         /\ result[i].status_code = response.status_code
         /\ result[i].suggestion # ""
         /\ Len(exchanges[i]) = 1
         /\ response.body = NotJson =>
              /\ result[i].error_code = Txt("parse_error")
              /\ result[i].error.args[2] = Txt(response.text)

C5_Witness ==
  \E i \in Invocations :
    /\ PostRejected(i)
    /\ exchanges[i][1].answer.status_code = 503
    /\ exchanges[i][1].answer.body = NotJson
    /\ result[i].error_type = "server_error"

\* The POST of invocation i timed out
PostTimedOut(i) ==
  /\ Done(i)
  /\ Len(exchanges[i]) >= 1
  /\ IsException(exchanges[i][1].answer)
  /\ exchanges[i][1].answer.exc \in TimeoutClasses

\* C6: when the POST times out the outcome is the timeout error, its
\* timeout_seconds is the timeout the POST was sent with (60), and no GET
\* is sent.
C6_PostTimeout ==
  \A i \in Invocations :
    PostTimedOut(i) =>
      /\ result[i].success = FALSE
      /\ result[i].error_type = "timeout_error"
      /\ result[i].timeout_seconds = exchanges[i][1].request.timeout
      /\ result[i].timeout_seconds = 60
      /\ Methods(i) = <<"POST">>

C6_Witness ==
  \E i \in Invocations :
    /\ PostTimedOut(i)
    /\ exchanges[i][1].answer.exc = "ReadTimeout"
    /\ result[i].timeout_seconds = 60

\* The outcome r restates the destination number of the arguments a
RestatesNumber(r, a) ==
  "customer_number" \in DOMAIN r /\ r.customer_number = a.destination_phone_number

\* The outcome r restates the persona of the arguments a as it was given
RestatesPersona(r, a) ==
  \/ "assistant_requested" \in DOMAIN r /\ r.assistant_requested = a.assistant
  \/ "assistant_used" \in DOMAIN r /\ r.assistant_used = a.assistant

\* The assistant identifier of invocation i was resolved
Resolved(i) == locals[i].assistant_id # Unset /\ locals[i].assistant_id \notin {None, Txt("")}

\* The outcome of invocation i restates the resolved assistant identifier
RestatesAssistantId(i) ==
  "assistant_id" \in DOMAIN result[i] /\ result[i].assistant_id = locals[i].assistant_id

\* C7 as stated: every outcome, of every variant, restates the destination
\* number, the persona, and the assistant identifier whenever it was resolved.
C7_EveryOutcomeRestatesInputs ==
  \A i \in Invocations :
    Done(i) =>
      /\ RestatesNumber(result[i], args[i])
      /\ RestatesPersona(result[i], args[i])
      /\ Resolved(i) => RestatesAssistantId(i)

\* C7 as amended: every outcome but the validation error restates the
\* persona as a field (the validation error quotes it in its error text
\* only); every outcome but the validation and configuration errors restates
\* the destination number; the success and the API error of a rejected POST
\* restate the resolved assistant identifier; the timeout, network, HTTP-status
\* and unexpected errors carry no assistant identifier.
C7_RestatedInputsByVariant ==
  \A i \in Invocations :
    Done(i) =>
      LET r == result[i]
          v == Variant(r)
      IN /\ IF v = "validation_error"
            THEN /\ ~RestatesPersona(r, args[i])
                 /\ r.error.args = <<args[i].assistant>>
            ELSE RestatesPersona(r, args[i])
         /\ RestatesNumber(r, args[i]) <=> v \notin {"validation_error", "configuration_error"}
         /\ "customer_number" \in DOMAIN r => RestatesNumber(r, args[i])
         /\ "assistant_id" \in DOMAIN r <=>
              v \in {"success", "api_error", "authentication_error",
                     "authorization_error", "rate_limit_error", "server_error"}
         /\ "assistant_id" \in DOMAIN r => Resolved(i) /\ RestatesAssistantId(i)

C7_Witness ==
  \E i \in Invocations :
    /\ Done(i)
    /\ Resolved(i)
    /\ Variant(result[i]) = "network_error"
    /\ RestatesNumber(result[i], args[i])
    /\ "assistant_id" \notin DOMAIN result[i]
    /\ args[i].assistant \notin {andy, mam}

\* The optional fields: the key of the call record and the key of the outcome
OptionalFields ==
  {<<"status", "status">>, <<"duration", "call_duration">>,
   <<"startedAt", "call_started_at">>, <<"endedAt", "call_ended_at">>,
   <<"transcript", "transcript">>, <<"cost", "cost">>}

\* Invocation i returned the success
Succeeded(i) == Done(i) /\ result[i].success

\* The call record the success of invocation i is built from: the body of
\* the GET when it was answered 200 with a non-empty object, else the body
\* of the POST
ChosenRecord(i) ==
  IF /\ Len(exchanges[i]) = 2
     /\ ~IsException(exchanges[i][2].answer)
     /\ exchanges[i][2].answer.status_code = 200
     /\ exchanges[i][2].answer.body \notin {NotJson, None, EmptyDict}
  THEN exchanges[i][2].answer.body
  ELSE exchanges[i][1].answer.body

\* The POST was answered 200 {id: 'abc'} and the GET 200 {status: 'queued', duration: null}
QueuedExample(i) ==
  /\ Done(i)
  /\ Len(exchanges[i]) = 2
  /\ exchanges[i][1].answer = Response(200, BodyId.text, BodyId.body)
  /\ exchanges[i][2].answer = Response(200, BodyQueued.text, BodyQueued.body)

\* C8 as stated: in the success each optional field is the record's when the
\* record has it, and is absent from the outcome when the record has not (or
\* has null, as the duration of the example).
C8_OmittedFieldsAbsent ==
  \A i \in Invocations :
    Succeeded(i) =>
      \A f \in OptionalFields :
        LET rec == ChosenRecord(i).fields
        IN IF f[1] \in DOMAIN rec /\ rec[f[1]] # None
           THEN f[2] \in DOMAIN result[i] /\ result[i][f[2]] = rec[f[1]]
           ELSE f[2] \notin DOMAIN result[i]

\* C8 as amended: in the success each optional field is the record's when
\* the record has it; when the record has not, the outcome still holds the
\* key, with 'unknown' for the status and null for the others.  After POST
\* 200 {id: 'abc'} and GET 200 {status: 'queued', duration: null} the
\* outcome is the success with call id 'abc', status 'queued' and a
\* call_duration that is present and null.
C8_OmittedFieldsNullOrUnknown ==
  \A i \in Invocations :
    /\ Succeeded(i) =>
         \A f \in OptionalFields :
           LET rec == ChosenRecord(i).fields
           IN /\ f[2] \in DOMAIN result[i]
              /\ result[i][f[2]] =
                   IF f[1] \in DOMAIN rec THEN rec[f[1]]
                   ELSE IF f[1] = "status" THEN Txt("unknown") ELSE None
    /\ QueuedExample(i) =>
         /\ result[i].success
         /\ result[i].call_id = Txt("abc")
         /\ result[i].status = Txt("queued")
         /\ result[i].call_duration = None

C8_Witness ==
  \E i \in Invocations :
    /\ QueuedExample(i)
    /\ result[i].success
    /\ result[i].call_started_at = None

\* C9: the outcome of an invocation is the one make_vapi_call gives, run
\* alone, for its own arguments, the environment and the answers to its own
\* requests, its requests carry its own arguments, and two invocations with
\* the same arguments and the same answers return the same outcome, however
\* their steps interleave.
C9_NoSharedState ==
  /\ \A i \in Invocations :
       /\ Done(i) => result[i] = RunAlone(args[i], env, Answers(i))
       /\ Len(exchanges[i]) >= 1 =>
            exchanges[i][1].request.json.customer.number = args[i].destination_phone_number
       /\ Len(exchanges[i]) = 2 =>
            exchanges[i][2].request.url.args =
              <<DictGet(exchanges[i][1].answer.body, "id", None)>>
  /\ \A i, j \in Invocations :
       (Done(i) /\ Done(j) /\ args[i] = args[j] /\ Answers(i) = Answers(j)) =>
         result[i] = result[j]

C9_Witness ==
  \E i, j \in Invocations :
    /\ i # j
    /\ Done(i) /\ Done(j)
    /\ args[i] = args[j]
    /\ Len(exchanges[i]) = 2
    /\ Answers(i) = Answers(j)
    /\ result[i].success
    /\ result[i] = result[j]

\* The POST of invocation i was answered 200 with an object holding an identifier
PostGaveId(i) ==
  /\ Len(exchanges[i]) >= 1
  /\ ~IsException(exchanges[i][1].answer)
  /\ exchanges[i][1].answer.status_code = 200
  /\ exchanges[i][1].answer.body # NotJson
  /\ IsDict(exchanges[i][1].answer.body)
  /\ DictGet(exchanges[i][1].answer.body, "id", None) \notin {None, Txt("")}

\* C10: the requests of an invocation are a prefix of [POST, GET], none is
\* sent twice; the GET is sent after the POST was answered, exactly when the
\* answer was 200 with an identifier; after any other answer to the POST
\* there is no GET.
C10_RequestsPrefixOfPostGet ==
  \A i \in Invocations :
    /\ Methods(i) \in {<<>>, <<"POST">>, <<"POST", "GET">>}
    /\ pc[i] \in {"idle", "validate", "config", "post"} => Methods(i) = <<>>
    /\ pc[i] = "sleep" => Methods(i) = <<"POST">>
    /\ Len(exchanges[i]) = 2 => PostGaveId(i)
    /\ Done(i) /\ PostGaveId(i) => Len(exchanges[i]) = 2

C10_Witness ==
  \E i \in Invocations :
    /\ Done(i)
    /\ Methods(i) = <<"POST">>
    /\ exchanges[i][1].answer = Response(200, BodyIdNull.text, BodyIdNull.body)
    /\ result[i].success

====
